---- MODULE Spec2Model ----
(***************************************************************************)
(* Model of the quiz optimizer's 0/1 knapsack solver                       *)
(* (src/quiz-optimizer/src/lib/algorithms/knapsack.ts): knapsack,          *)
(* backtrackSelection and the validating wrapper optimizeQuestions.        *)
(*                                                                         *)
(* One call is modelled per behaviour: Init draws the arguments of the     *)
(* call, the actions follow the code from the entry point to the return or *)
(* the throw.  The backward walk of backtrackSelection is one action per   *)
(* loop iteration.                                                         *)
(***************************************************************************)
EXTENDS Integers, Sequences, FiniteSets, TLC

\* ------------------------------------------------------------------------
\* Bounds of the model
\* ------------------------------------------------------------------------
MaxN == 3        \* longest item / question sequence
MaxValue == 1    \* values (scores) range over 0..MaxValue
MaxCap == 3      \* integer capacities range over -1..MaxCap
MaxWeight == MaxCap - 1   \* weights (time_required) range over 0..MaxWeight
NumCalls == 2    \* solver invocations in progress at once
NumAnswerReqs == 2   \* POST /api/answers requests in progress at once
NumUserReqs == 2     \* POST /api/users requests in progress at once
MaxListed == 2       \* questions of the quiz listed by GET .../questions

\* ------------------------------------------------------------------------
\* JavaScript numbers that reach the solver as a capacity.
\*   kind "int"    : the integer v
\*   kind "frac"   : the non-integer v + 1/2
\*   kind "nan"    : NaN
\*   kind "string" : a value whose typeof is not 'number'
\* ------------------------------------------------------------------------
IntCap(k) == [kind |-> "int", v |-> k]

FracCap(k) == [kind |-> "frac", v |-> k]

NaNCap == [kind |-> "nan", v |-> 0]

StringCap == [kind |-> "string", v |-> 0]

Numbers == {IntCap(k) : k \in -1..MaxCap} \cup {FracCap(k) : k \in -1..1} \cup {NaNCap}

\* typeof c === 'number'
TypeofNumber(c) == c.kind # "string"

\* c <= 0 on numbers (every comparison with NaN is false)
LeqZero(c) ==
    \/ c.kind = "int" /\ c.v <= 0
    \/ c.kind = "frac" /\ c.v < 0

\* c < 0 on numbers
Negative(c) ==
    \/ c.kind = "int" /\ c.v < 0
    \/ c.kind = "frac" /\ c.v < 0

\* Array(c + 1) succeeds only for a non-negative integer length; anything
\* else throws RangeError: Invalid array length.
ValidArrayLength(c) == c.kind = "int" /\ c.v + 1 >= 0

\* ------------------------------------------------------------------------
\* Questions and knapsack items
\* ------------------------------------------------------------------------
Question(id, score, time) == [id |-> id, score |-> score, time_required |-> time]

\* Variant of ToItem: data is a stripped copy of the question, not the question
ToItemStrippedData(q) ==
    [id |-> q.id, value |-> q.score, weight |-> q.time_required, data |-> Question(q.id, 0, 0)]

\* questions.map((q) => ({id: q.id, value: q.score, weight: q.time_required, data: q}))
ToItem(q) == [id |-> q.id, value |-> q.score, weight |-> q.time_required, data |-> q]

ToItems(qs) == [k \in 1..Len(qs) |-> ToItem(qs[k])]

RECURSIVE SumValue(_)
\* selectedItems.reduce((sum, item) => sum + item.value, 0)
SumValue(s) == IF s = <<>> THEN 0 ELSE SumValue(Tail(s)) + Head(s).value

RECURSIVE SumWeight(_)
\* selectedItems.reduce((sum, item) => sum + item.weight, 0)
SumWeight(s) == IF s = <<>> THEN 0 ELSE SumWeight(Tail(s)) + Head(s).weight

\* Variant of Reverse: the selection is returned in the order it was pushed
NotReversed(s) == s

\* selected.reverse()
Reverse(s) == [k \in 1..Len(s) |-> s[Len(s) + 1 - k]]

EmptyResult == [selected_items |-> <<>>, total_value |-> 0, total_weight |-> 0]

NoResult == [selected_items |-> <<>>, total_value |-> -1, total_weight |-> -1]

\* ------------------------------------------------------------------------
\* The DP table
\* ------------------------------------------------------------------------
Max(a, b) == IF a >= b THEN a ELSE b

\* Array(n + 1).fill(0).map(() => Array(capacity + 1).fill(0))
ZeroTable(n, cap) == [i \in 0..n |-> [w \in 0..cap |-> 0]]

\* Variant of Cell: an item that fits is always taken, the row above is not
\* compared
CellAlwaysTake(prev, item, w) ==
    IF item.weight <= w
    THEN prev[w - item.weight] + item.value
    ELSE prev[w]

\* Variant of Cell: the index w - weight is clamped to 0 in place of the test
\* that the item fits
CellClampIndex(prev, item, w) ==
    Max(prev[w], prev[Max(0, w - item.weight)] + item.value)

\* Body of the inner loop: the cell dp[i][w] from row i-1
Cell(prev, item, w) ==
    IF item.weight <= w
    THEN Max(prev[w], prev[w - item.weight] + item.value)
    ELSE prev[w]

RECURSIVE FillRows(_, _, _, _)
\* The outer loop for (let i = 1; i <= n; i++), from row i on
FillRows(dp, its, cap, i) ==
    IF i > Len(its) THEN dp
    ELSE FillRows([dp EXCEPT ![i] = [w \in 0..cap |-> Cell(dp[i - 1], its[i], w)]],
                  its, cap, i + 1)

BuildTable(its, cap) == FillRows(ZeroTable(Len(its), cap), its, cap, 1)

\* ------------------------------------------------------------------------
\* State
\* ------------------------------------------------------------------------
VARIABLES
    entry,            \* the function the caller invoked: "optimizeQuestions" or "knapsack"
    pc,               \* where the call is: "optimizeQuestions", "knapsack",
                      \* "backtrack", "returned" or "thrown"
    questionsIsArray, \* Array.isArray(questions)
    questions,        \* argument of optimizeQuestions
    totalTime,        \* argument of optimizeQuestions
    items,            \* argument of knapsack
    capacity,         \* argument of knapsack
    knapsackCalls,    \* number of times knapsack was entered
    tableAllocated,   \* the DP table exists
    dp,               \* the DP table, dp[i][w]
    i,                \* backtrackSelection: row
    w,                \* backtrackSelection: remaining weight
    selected,         \* backtrackSelection: items pushed so far
    result,           \* the KnapsackResult returned
    error,            \* message of the Error thrown, "" if none
    calls,            \* solver invocations in progress at once, one frame each
    optReq,           \* POST /api/optimize: the request being handled
    quizDb,           \* the quizzes and questions tables
    answersTable,     \* the answers table and its constraint
    ansReqs,          \* POST /api/answers: the requests being handled
    validation,       \* validateSolution: the call and what it returned
    usersTable,       \* the users table
    userReqs,         \* POST /api/users: the requests being handled
    questionsReq      \* GET /api/quizzes/[quizId]/questions: the request being handled

\* State outside the single solver call
sideVars == <<validation, usersTable, userReqs, questionsReq>>

apiVars == <<calls, optReq, quizDb, answersTable, ansReqs, sideVars>>

vars == <<entry, pc, questionsIsArray, questions, totalTime, items, capacity, knapsackCalls,
          tableAllocated, dp, i, w, selected, result, error, apiVars>>

Values == 0..MaxValue

Weights == 0..MaxWeight

\* Rows of the questions table: the primary key is unique, here the position.
QuestionSeqs ==
    UNION {{[k \in 1..n |-> Question(k, f[k][1], f[k][2])] :
                f \in [1..n -> Values \X Weights]} : n \in 0..MaxN}

NoTable == [r \in {0} |-> [c \in {0} |-> 0]]

\* No request is being handled and no other invocation is in progress
SideIdle ==
    /\ validation = [pc |-> "none"]
    /\ usersTable = <<>>
    /\ userReqs = <<>>
    /\ questionsReq = [pc |-> "none"]

ApiIdle ==
    /\ SideIdle
    /\ calls = <<>>
    /\ optReq = [pc |-> "none"]
    /\ quizDb = [quizExists |-> FALSE, questions |-> <<>>]
    /\ answersTable = [unique |-> TRUE, rows |-> <<>>]
    /\ ansReqs = <<>>

InitLocals ==
    /\ ApiIdle
    /\ tableAllocated = FALSE
    /\ dp = NoTable
    /\ i = 0
    /\ w = 0
    /\ selected = <<>>
    /\ result = NoResult
    /\ error = ""

\* A caller invokes optimizeQuestions(questions, totalTime)
InitOptimizeQuestions ==
    /\ entry = "optimizeQuestions"
    /\ pc = "optimizeQuestions"
    /\ questionsIsArray \in BOOLEAN
    /\ questions \in (IF questionsIsArray THEN QuestionSeqs ELSE {<<>>})
    /\ totalTime \in Numbers \cup {StringCap}
    /\ items = <<>>
    /\ capacity = IntCap(0)
    /\ knapsackCalls = 0
    /\ InitLocals

\* A caller invokes knapsack(its, cap)
InitKnapsack(its, cap) ==
    /\ entry = "knapsack"
    /\ pc = "knapsack"
    /\ questionsIsArray = TRUE
    /\ questions = <<>>
    /\ totalTime = IntCap(0)
    /\ items = its
    /\ capacity = cap
    /\ knapsackCalls = 1
    /\ InitLocals

Init ==
    \/ InitOptimizeQuestions
    \/ \E qs \in QuestionSeqs, cap \in Numbers : InitKnapsack(ToItems(qs), cap)

\* ------------------------------------------------------------------------
\* optimizeQuestions (knapsack.ts 127-150)
\* ------------------------------------------------------------------------
ErrNotArray == "Questions must be an array"

ErrTotalTime == "Total time must be a positive number"

ErrArrayLength == "Invalid array length"

\* Variant of ValidationError: totalTime < 0 in place of totalTime <= 0
ValidationErrorAllowZero(isArray, t) ==
    IF ~isArray THEN ErrNotArray
    ELSE IF ~TypeofNumber(t) \/ Negative(t) THEN ErrTotalTime
    ELSE ""

\* Variant of ValidationError: the Array.isArray test is missing
ValidationErrorNoArrayCheck(isArray, t) ==
    IF ~TypeofNumber(t) \/ LeqZero(t) THEN ErrTotalTime
    ELSE ""

\* The message optimizeQuestions throws, "" if the arguments pass
ValidationError(isArray, t) ==
    IF ~isArray THEN ErrNotArray
    ELSE IF ~TypeofNumber(t) \/ LeqZero(t) THEN ErrTotalTime
    ELSE ""

OptimizeQuestionsThrow ==
    /\ pc = "optimizeQuestions"
    /\ ValidationError(questionsIsArray, totalTime) # ""
    /\ error' = ValidationError(questionsIsArray, totalTime)
    /\ pc' = "thrown"
    /\ UNCHANGED <<entry, questionsIsArray, questions, totalTime, items, capacity, knapsackCalls,
                   tableAllocated, dp, i, w, selected, result>>
    /\ UNCHANGED apiVars

OptimizeQuestionsCall ==
    /\ pc = "optimizeQuestions"
    /\ ValidationError(questionsIsArray, totalTime) = ""
    /\ items' = ToItems(questions)
    /\ capacity' = totalTime
    /\ knapsackCalls' = knapsackCalls + 1
    /\ pc' = "knapsack"
    /\ UNCHANGED <<entry, questionsIsArray, questions, totalTime,
                   tableAllocated, dp, i, w, selected, result, error>>
    /\ UNCHANGED apiVars

\* ------------------------------------------------------------------------
\* knapsack (knapsack.ts 30-78)
\* ------------------------------------------------------------------------
\* Variant of EdgeCase: the empty list is not tested
EdgeCaseCapacityOnly(its, cap) == LeqZero(cap)

\* Variant of EdgeCase: capacity === 0 in place of capacity <= 0
EdgeCaseZeroOnly(its, cap) == Len(its) = 0 \/ cap = IntCap(0)

\* n === 0 || capacity <= 0
EdgeCase(its, cap) == Len(its) = 0 \/ LeqZero(cap)

KnapsackEdgeCase ==
    /\ pc = "knapsack"
    /\ EdgeCase(items, capacity)
    /\ result' = EmptyResult
    /\ pc' = "returned"
    /\ UNCHANGED <<entry, questionsIsArray, questions, totalTime, items, capacity, knapsackCalls,
                   tableAllocated, dp, i, w, selected, error>>
    /\ UNCHANGED apiVars

\* Array(capacity + 1) throws a RangeError for a capacity that is no integer
KnapsackAllocThrow ==
    /\ pc = "knapsack"
    /\ ~EdgeCase(items, capacity)
    /\ ~ValidArrayLength(capacity)
    /\ error' = ErrArrayLength
    /\ pc' = "thrown"
    /\ UNCHANGED <<entry, questionsIsArray, questions, totalTime, items, capacity, knapsackCalls,
                   tableAllocated, dp, i, w, selected, result>>
    /\ UNCHANGED apiVars

\* The table is allocated and filled; backtrackSelection starts at (n, capacity)
KnapsackBuild ==
    /\ pc = "knapsack"
    /\ ~EdgeCase(items, capacity)
    /\ ValidArrayLength(capacity)
    /\ tableAllocated' = TRUE
    /\ dp' = BuildTable(items, capacity.v)
    /\ selected' = <<>>
    /\ w' = capacity.v
    /\ i' = Len(items)
    /\ pc' = "backtrack"
    /\ UNCHANGED <<entry, questionsIsArray, questions, totalTime, items, capacity, knapsackCalls,
                   result, error>>
    /\ UNCHANGED apiVars

\* ------------------------------------------------------------------------
\* backtrackSelection (knapsack.ts 91-115)
\* ------------------------------------------------------------------------
\* Variant of LoopCondition: the walk stops one row early
LoopConditionSkipFirst(ii, ww) == ii > 1 /\ ww > 0

\* Variant of LoopCondition: the walk goes on down to row 1 whatever w is
LoopConditionRowsOnly(ii, ww) == ii > 0

\* while (i > 0 && w > 0)
LoopCondition(ii, ww) == ii > 0 /\ ww > 0

\* Variant of Included: the item is taken whenever taking it reaches dp[i][w],
\* also when the row above reaches it too
IncludedWhenAchievable(table, ii, ww) ==
    /\ items[ii].weight <= ww
    /\ table[ii][ww] = table[ii - 1][ww - items[ii].weight] + items[ii].value

\* Variant of Included: dp[i][w] > 0 in place of the comparison with the row above
IncludedIfPositive(table, ii, ww) == table[ii][ww] > 0

\* dp[i][w] !== dp[i - 1][w]
Included(table, ii, ww) == table[ii][ww] # table[ii - 1][ww]

\* selected.push(selectedItem)
Push(sel, item) == Append(sel, item)

\* w -= selectedItem.weight
Remaining(ww, item) == ww - item.weight

\* Variant of NextRow: i-- only when the item was not taken
NextRowStay(ii, included) == IF included THEN ii ELSE ii - 1

\* i-- at the end of every iteration
NextRow(ii, included) == ii - 1

BacktrackStep ==
    /\ pc = "backtrack"
    /\ LoopCondition(i, w)
    /\ IF Included(dp, i, w)
       THEN /\ selected' = Push(selected, items[i])
            /\ w' = Remaining(w, items[i])
       ELSE UNCHANGED <<selected, w>>
    /\ i' = NextRow(i, Included(dp, i, w))
    /\ UNCHANGED <<entry, pc, questionsIsArray, questions, totalTime, items, capacity,
                   knapsackCalls, tableAllocated, dp, result, error>>
    /\ UNCHANGED apiVars

\* Variant of MakeResult: total_weight summed over item.value
MakeResultValueTwice(sel) ==
    [selected_items |-> sel, total_value |-> SumValue(sel), total_weight |-> SumValue(sel)]

\* The KnapsackResult built from the selection (knapsack.ts 66-77)
MakeResult(sel) ==
    [selected_items |-> sel, total_value |-> SumValue(sel), total_weight |-> SumWeight(sel)]

\* The loop ends: selected.reverse() is returned and knapsack returns the totals
KnapsackReturn ==
    /\ pc = "backtrack"
    /\ ~LoopCondition(i, w)
    /\ result' = MakeResult(Reverse(selected))
    /\ pc' = "returned"
    /\ UNCHANGED <<entry, questionsIsArray, questions, totalTime, items, capacity, knapsackCalls,
                   tableAllocated, dp, i, w, selected, error>>
    /\ UNCHANGED apiVars

Next ==
    \/ OptimizeQuestionsThrow
    \/ OptimizeQuestionsCall
    \/ KnapsackEdgeCase
    \/ KnapsackAllocThrow
    \/ KnapsackBuild
    \/ BacktrackStep
    \/ KnapsackReturn

Spec == Init /\ [][Next]_vars

\* ------------------------------------------------------------------------
\* The solver as a function of its arguments: the same steps, run to the end
\* ------------------------------------------------------------------------
RECURSIVE Walk(_, _, _, _, _)
\* backtrackSelection from row ii with remaining weight ww and selection sel
Walk(table, its, ii, ww, sel) ==
    IF ~LoopCondition(ii, ww) THEN Reverse(sel)
    ELSE IF Included(table, ii, ww)
         THEN Walk(table, its, NextRow(ii, TRUE), Remaining(ww, its[ii]), Push(sel, its[ii]))
         ELSE Walk(table, its, NextRow(ii, FALSE), ww, sel)

ReturnedOutcome(res) == [kind |-> "returned", result |-> res, error |-> ""]

ThrownOutcome(msg) == [kind |-> "thrown", result |-> NoResult, error |-> msg]

\* knapsack(its, cap)
KnapsackOutcome(its, cap) ==
    IF EdgeCase(its, cap) THEN ReturnedOutcome(EmptyResult)
    ELSE IF ~ValidArrayLength(cap) THEN ThrownOutcome(ErrArrayLength)
    ELSE ReturnedOutcome(MakeResult(Walk(BuildTable(its, cap.v), its, Len(its), cap.v, <<>>)))

\* optimizeQuestions(qs, t)
OptimizeOutcome(isArray, qs, t) ==
    IF ValidationError(isArray, t) # "" THEN ThrownOutcome(ValidationError(isArray, t))
    ELSE KnapsackOutcome(ToItems(qs), t)

\* The stepwise call ends as the function says
StepwiseAgrees ==
    (pc \in {"returned", "thrown"}) =>
        [kind |-> pc, result |-> result, error |-> error]
            = (IF entry = "optimizeQuestions"
               THEN OptimizeOutcome(questionsIsArray, questions, totalTime)
               ELSE KnapsackOutcome(items, capacity))

\* ------------------------------------------------------------------------
\* knapsack called by a caller that builds the items itself: nothing in the
\* code makes the ids of the items distinct.
\* ------------------------------------------------------------------------
Ids == 1..MaxN

CallerItemSeqs ==
    UNION {{[k \in 1..n |-> ToItem(Question(f[k][1], 1, f[k][2]))] :
                f \in [1..n -> Ids \X (1..MaxWeight)]} : n \in 0..MaxN}

InitIds ==
    \E its \in CallerItemSeqs, k \in -1..MaxCap : InitKnapsack(its, IntCap(k))

NextIds ==
    \/ KnapsackEdgeCase
    \/ KnapsackBuild
    \/ BacktrackStep
    \/ KnapsackReturn

SpecIds == InitIds /\ [][NextIds]_vars

\* ------------------------------------------------------------------------
\* Vocabulary of the properties
\* ------------------------------------------------------------------------
\* knapsack has returned a KnapsackResult / the call has ended
Returned == pc = "returned"

Ended == pc \in {"returned", "thrown"}

PositiveWeights(its) == \A k \in 1..Len(its) : its[k].weight > 0

\* Sum of f[k] over the positions k in S
RECURSIVE SetSum(_, _)
SetSum(f, S) ==
    IF S = {} THEN 0
    ELSE LET k == CHOOSE x \in S : TRUE IN f[k] + SetSum(f, S \ {k})

ValueOf(its) == [k \in 1..Len(its) |-> its[k].value]

WeightOf(its) == [k \in 1..Len(its) |-> its[k].weight]

\* Exhaustive search: the subsets of positions that fit into cap, and the
\* best total value among them
Feasible(its, cap) ==
    {S \in SUBSET (1..Len(its)) : SetSum(WeightOf(its), S) <= cap}

BestValue(its, cap) ==
    LET totals == {SetSum(ValueOf(its), S) : S \in Feasible(its, cap)}
    IN CHOOSE m \in totals : \A t \in totals : t <= m

\* x <= c for an integer x and a JavaScript number c
LeqNumber(x, c) ==
    \/ c.kind = "int" /\ x <= c.v
    \/ c.kind = "frac" /\ x <= c.v

\* s is t restricted to strictly increasing positions of t
RECURSIVE IsSubsequence(_, _)
IsSubsequence(s, t) ==
    IF s = <<>> THEN TRUE
    ELSE IF t = <<>> THEN FALSE
    ELSE IF Head(s) = Head(t) THEN IsSubsequence(Tail(s), Tail(t))
    ELSE IsSubsequence(s, Tail(t))

DistinctIds(its) ==
    \A a, b \in 1..Len(its) : its[a].id = its[b].id => a = b

\* ------------------------------------------------------------------------
\* Properties of knapsack
\* ------------------------------------------------------------------------

\* C1: for items whose weights are all > 0 (values >= 0) and an integer
\* capacity >= 0, the total_value knapsack returns equals the best total
\* value exhaustive search finds over all subsets that fit into capacity.
C1_Optimal ==
    (Returned /\ PositiveWeights(items) /\ capacity.kind = "int" /\ capacity.v >= 0)
        => result.total_value = BestValue(items, capacity.v)

\* A call that had to choose: three items of positive weight, some taken and
\* some left out.
C1_Witness ==
    /\ Returned
    /\ PositiveWeights(items)
    /\ Len(items) = 3
    /\ capacity.kind = "int"
    /\ Len(result.selected_items) \in {1, 2}
    /\ result.total_value = BestValue(items, capacity.v)
    /\ result.total_value > 0

\* C2 as stated: whenever knapsack returns a result, total_weight <= capacity,
\* for every capacity value it accepts.
C2_AsStated == Returned => LeqNumber(result.total_weight, capacity)

\* C2 amended: whenever knapsack returns a result for a capacity >= 0 (the
\* weights being non-negative integers), total_weight <= capacity.
C2_Feasible ==
    (Returned /\ ~Negative(capacity) /\ capacity.kind # "nan")
        => LeqNumber(result.total_weight, capacity)

\* Items were selected and at least one item was too heavy for what was left.
C2_Witness ==
    /\ Returned
    /\ capacity.kind = "int"
    /\ result.total_weight > 0
    /\ result.total_weight <= capacity.v
    /\ SetSum(WeightOf(items), 1..Len(items)) > capacity.v

\* C3: in every result knapsack returns, total_value is the sum of the values
\* of selected_items and total_weight the sum of their weights.
C3_Consistent ==
    Returned =>
        LET sel == result.selected_items
        IN /\ result.total_value = SetSum(ValueOf(sel), 1..Len(sel))
           /\ result.total_weight = SetSum(WeightOf(sel), 1..Len(sel))

\* A result with two selected items whose value total and weight total differ.
C3_Witness ==
    /\ Returned
    /\ Len(result.selected_items) >= 2
    /\ result.total_value = SetSum(ValueOf(result.selected_items), 1..Len(result.selected_items))
    /\ result.total_value # result.total_weight

\* C4: selected_items is a subsequence of the input items in their original
\* relative order; the rows of the questions table having distinct ids, the
\* ids of selected_items are the selected positions, strictly increasing.
C4_OrderPreserved ==
    Returned =>
        LET sel == result.selected_items
        IN /\ IsSubsequence(sel, items)
           /\ \A k \in 1..Len(sel) : sel[k] = items[sel[k].id]
           /\ \A k \in 1..(Len(sel) - 1) : sel[k].id < sel[k + 1].id

\* Two or more items selected, not all of them, out of three.
C4_Witness ==
    /\ Returned
    /\ Len(items) = 3
    /\ Len(result.selected_items) = 2
    /\ IsSubsequence(result.selected_items, items)

\* C5 as stated: for every input item sequence and capacity, no item id
\* appears more than once in selected_items.
C5_AsStated == Returned => DistinctIds(result.selected_items)

\* C5 amended: for every input item sequence whose ids are pairwise distinct,
\* and every capacity, no item id appears more than once in selected_items.
C5_NoDuplicateIds ==
    (Returned /\ DistinctIds(items)) => DistinctIds(result.selected_items)

\* Three items with distinct ids, two or more of them selected.
C5_Witness ==
    /\ Returned
    /\ Len(items) = 3
    /\ DistinctIds(items)
    /\ Len(result.selected_items) >= 2
    /\ DistinctIds(result.selected_items)

\* C6: whenever the item list is empty (any capacity) or capacity is 0 (any
\* items), the call of knapsack ends by returning the empty selection with
\* total_value 0 and total_weight 0; it does not throw.
C6_EmptyInputs ==
    (Ended /\ knapsackCalls = 1 /\ (Len(items) = 0 \/ capacity = IntCap(0)))
        => (Returned /\ result = EmptyResult /\ error = "")

\* knapsack has returned for an empty list with a capacity that is no valid
\* table size.
C6_WitnessEmptyList ==
    /\ Returned
    /\ entry = "knapsack"
    /\ Len(items) = 0
    /\ capacity.kind = "nan"
    /\ result = EmptyResult

\* ------------------------------------------------------------------------
\* Properties of optimizeQuestions
\* ------------------------------------------------------------------------
\* The call of optimizeQuestions has ended (returned or thrown)
OptimizeEnded == entry = "optimizeQuestions" /\ Ended

\* C7 as stated: optimizeQuestions(questions, 0) returns the empty solution
\* and does not raise an error.
C7_AsStated ==
    (OptimizeEnded /\ questionsIsArray /\ totalTime = IntCap(0))
        => (Returned /\ result = EmptyResult)

\* C7 amended: a capacity of 0 does not pass the validation of
\* optimizeQuestions: optimizeQuestions(questions, 0) throws "Total time must
\* be a positive number" and knapsack is not called.
C7_ZeroRejected ==
    (OptimizeEnded /\ questionsIsArray /\ totalTime = IntCap(0))
        => (pc = "thrown" /\ error = ErrTotalTime /\ knapsackCalls = 0 /\ result = NoResult)

\* optimizeQuestions was called with questions and a total time of 0 and ended.
C7_Witness ==
    /\ OptimizeEnded
    /\ questionsIsArray
    /\ Len(questions) > 0
    /\ totalTime = IntCap(0)

\* C8 as stated: knapsack called with a negative capacity rejects the call
\* with an error before any DP table is allocated and returns no Solution.
C8_AsStated ==
    (Ended /\ knapsackCalls = 1 /\ Negative(capacity))
        => (pc = "thrown" /\ ~tableAllocated /\ result = NoResult)

\* C8 amended: knapsack called with a negative capacity raises no error: it
\* returns the empty Solution before any DP table is allocated.
C8_NegativeReturnsEmpty ==
    (pc \notin {"optimizeQuestions", "knapsack"} /\ knapsackCalls = 1 /\ Negative(capacity))
        => (Returned /\ result = EmptyResult /\ error = "" /\ ~tableAllocated)

\* knapsack was called with items and a negative capacity and has ended.
C8_Witness ==
    /\ Ended
    /\ knapsackCalls = 1
    /\ Len(items) > 0
    /\ Negative(capacity)

\* C9: when questions is not an array, or totalTime is negative or not of
\* type number, optimizeQuestions throws one of its two validation messages,
\* knapsack is never invoked, no DP table is built, no result is returned.
C9_ValidatesFirst ==
    (entry = "optimizeQuestions" /\ pc # "optimizeQuestions"
        /\ (~questionsIsArray \/ ~TypeofNumber(totalTime) \/ Negative(totalTime)))
        => /\ pc = "thrown"
           /\ error = (IF questionsIsArray THEN ErrTotalTime ELSE ErrNotArray)
           /\ knapsackCalls = 0
           /\ ~tableAllocated
           /\ result = NoResult

\* The three rejections have happened: not an array, not a number, negative.
C9_WitnessNotArray == OptimizeEnded /\ ~questionsIsArray /\ error = ErrNotArray

C9_WitnessNotNumber ==
    OptimizeEnded /\ questionsIsArray /\ ~TypeofNumber(totalTime) /\ error = ErrTotalTime

C9_Witness ==
    /\ OptimizeEnded
    /\ questionsIsArray
    /\ Len(questions) > 0
    /\ Negative(totalTime)
    /\ error = ErrTotalTime

\* C10: a capacity that is a number but not an integer is rejected by the
\* validation of optimizeQuestions with its descriptive error, before
\* knapsack is called and before the DP table is allocated.
C10_NonIntegerRejected ==
    (entry = "optimizeQuestions" /\ pc # "optimizeQuestions"
        /\ questionsIsArray /\ totalTime.kind = "frac")
        => /\ pc = "thrown"
           /\ error = ErrTotalTime
           /\ knapsackCalls = 0

\* ------------------------------------------------------------------------
\* Scenario A: four items, capacity 13
\* ------------------------------------------------------------------------
ScenarioAItems ==
    << ToItem(Question(1, 10, 3)), ToItem(Question(2, 15, 5)),
       ToItem(Question(3, 20, 8)), ToItem(Question(4, 25, 10)) >>

\* The items of s at the positions in S, in the order of s
RECURSIVE Restrict(_, _, _)
Restrict(s, S, k) ==
    IF k > Len(s) THEN <<>>
    ELSE IF k \in S THEN <<s[k]>> \o Restrict(s, S, k + 1)
    ELSE Restrict(s, S, k + 1)

\* knapsack is called with some of the scenario's items and a capacity up to 13
InitScenarioA ==
    \E S \in SUBSET (1..4), k \in 0..13 :
        InitKnapsack(Restrict(ScenarioAItems, S, 1), IntCap(k))

SpecScenarioA == InitScenarioA /\ [][NextIds]_vars

\* C11: for the four items of scenario A and capacity 13 knapsack returns
\* total_value 35, total_weight 13 and exactly items 2 and 3, in that order.
C11_ScenarioA ==
    (Returned /\ items = ScenarioAItems /\ capacity = IntCap(13))
        => result = [selected_items |-> <<ScenarioAItems[2], ScenarioAItems[3]>>,
                     total_value |-> 35, total_weight |-> 13]

\* The call of scenario A has returned, and {1, 4} was an equal alternative.
C11_Witness ==
    /\ Returned
    /\ items = ScenarioAItems
    /\ capacity = IntCap(13)
    /\ result.total_value = ScenarioAItems[1].value + ScenarioAItems[4].value
    /\ ScenarioAItems[1].weight + ScenarioAItems[4].weight = 13

\* ------------------------------------------------------------------------
\* Which optimal subset is returned
\* ------------------------------------------------------------------------
\* Positions of the selected items (the ids of the rows are their positions)
SelectedPositions == {result.selected_items[k].id : k \in 1..Len(result.selected_items)}

\* Replacing position out by position in, in the returned subset, gives a
\* subset that fits into the capacity and has the same total value
EquallyGoodSwap(out, in) ==
    LET T == (SelectedPositions \ {out}) \cup {in}
    IN /\ SetSum(WeightOf(items), T) <= capacity.v
       /\ SetSum(ValueOf(items), T) = SetSum(ValueOf(items), SelectedPositions)

ValidCall == Returned /\ PositiveWeights(items) /\ capacity.kind = "int" /\ capacity.v >= 1

\* C12 as stated: of two optimal subsets that differ only in an earlier item
\* against a later item, the one with the later item is returned.
C12_AsStated ==
    ValidCall =>
        \A a, b \in 1..Len(items) :
            (a < b /\ a \in SelectedPositions /\ b \notin SelectedPositions)
                => ~EquallyGoodSwap(a, b)

\* C12 amended: of two optimal subsets that differ only in an earlier item
\* against a later item, the one with the earlier item is returned.
C12_FavorsEarlier ==
    ValidCall =>
        \A a, b \in 1..Len(items) :
            (a < b /\ b \in SelectedPositions /\ a \notin SelectedPositions)
                => ~EquallyGoodSwap(b, a)

\* Two items of identical value and weight, only one fits: the earlier one
\* was returned.
C12_Witness ==
    /\ ValidCall
    /\ \E a, b \in 1..Len(items) :
         /\ a < b
         /\ items[a].value = items[b].value
         /\ items[a].weight = items[b].weight
         /\ items[a].value > 0
         /\ a \in SelectedPositions
         /\ b \notin SelectedPositions
         /\ EquallyGoodSwap(a, b)

\* ------------------------------------------------------------------------
\* Scenarios B and C
\* ------------------------------------------------------------------------
PositiveValues(its) == \A k \in 1..Len(its) : its[k].value > 0

AllSelected ==
    /\ result.selected_items = items
    /\ result.total_value = SetSum(ValueOf(items), 1..Len(items))
    /\ result.total_weight = capacity.v

CapacityIsTotalWeight == capacity = IntCap(SetSum(WeightOf(items), 1..Len(items)))

\* C13 as stated: for weights > 0 and values >= 0, with capacity equal to the
\* sum of all weights, knapsack selects all items.
C13_AsStated ==
    (Ended /\ knapsackCalls = 1 /\ PositiveWeights(items) /\ CapacityIsTotalWeight)
        => (Returned /\ AllSelected)

\* C13 amended: for weights > 0 and values > 0, with capacity equal to the
\* sum of all weights, knapsack selects all items, total_value is the sum of
\* all values and total_weight equals capacity.
C13_AllFit ==
    (Ended /\ knapsackCalls = 1 /\ PositiveWeights(items) /\ PositiveValues(items)
        /\ CapacityIsTotalWeight)
        => (Returned /\ AllSelected)

\* Two or more items of different weights, all selected.
C13_Witness ==
    /\ Returned
    /\ Len(items) >= 2
    /\ PositiveWeights(items)
    /\ PositiveValues(items)
    /\ CapacityIsTotalWeight
    /\ items[1].weight # items[2].weight
    /\ AllSelected

TooHeavy(its, cap) == \A k \in 1..Len(its) : its[k].weight > cap

\* C14: when every item's weight exceeds the capacity (an integer >= 1),
\* knapsack returns the empty selection with total_value 0 and total_weight 0
\* and raises no error.
C14_NothingFits ==
    (Ended /\ knapsackCalls = 1 /\ capacity.kind = "int" /\ capacity.v >= 1
        /\ TooHeavy(items, capacity.v))
        => (Returned /\ result = EmptyResult /\ error = "")

\* The table was built for items of positive value, none of which fits.
C14_Witness ==
    /\ Returned
    /\ tableAllocated
    /\ Len(items) >= 2
    /\ PositiveValues(items)
    /\ capacity.kind = "int"
    /\ TooHeavy(items, capacity.v)
    /\ result = EmptyResult

\* C16: knapsack and optimizeQuestions leave their inputs unchanged, and every
\* element of selected_items carries the caller's own data for that item:
\* the question it was built from.
PayloadKept ==
    \A k \in 1..Len(result.selected_items) :
        LET item == result.selected_items[k]
        IN /\ item = items[item.id]
           /\ entry = "optimizeQuestions" => item.data = questions[item.id]

C16_InputsUntouched ==
    [][ /\ questions' = questions
        /\ pc # "optimizeQuestions" => items' = items
        /\ Returned' => PayloadKept' ]_vars

\* optimizeQuestions has returned two of three questions.
C16_Witness ==
    /\ Returned
    /\ entry = "optimizeQuestions"
    /\ Len(questions) = 3
    /\ Len(result.selected_items) = 2
    /\ PayloadKept

\* ------------------------------------------------------------------------
\* Several invocations of knapsack in progress at once.  Each invocation has
\* its own frame: its arguments and the locals n, dp, selected, w, i of
\* knapsack and backtrackSelection.  The steps of different invocations
\* interleave in every order.
\* ------------------------------------------------------------------------
\* No single call is modelled
SolverIdle ==
    /\ entry = "none"
    /\ pc = "idle"
    /\ questionsIsArray = TRUE
    /\ questions = <<>>
    /\ totalTime = IntCap(0)
    /\ items = <<>>
    /\ capacity = IntCap(0)
    /\ knapsackCalls = 0
    /\ tableAllocated = FALSE
    /\ dp = NoTable
    /\ i = 0
    /\ w = 0
    /\ selected = <<>>
    /\ result = NoResult
    /\ error = ""

solverVars == <<entry, pc, questionsIsArray, questions, totalTime, items, capacity,
                knapsackCalls, tableAllocated, dp, i, w, selected, result, error>>

ItemA == ToItem(Question(1, 2, 2))

ItemB == ToItem(Question(2, 3, 3))

\* Arguments of the invocations
CallInputs ==
    { [items |-> <<ItemA, ItemB>>, capacity |-> IntCap(3)],
      [items |-> <<ItemA, ItemB>>, capacity |-> IntCap(5)],
      [items |-> <<ItemB, ItemA>>, capacity |-> IntCap(2)],
      [items |-> <<ItemA>>, capacity |-> IntCap(0)],
      [items |-> <<>>, capacity |-> IntCap(3)],
      [items |-> <<ItemA, ItemB>>, capacity |-> FracCap(1)] }

\* The frame of an invocation at its entry
NewFrame(in) ==
    [pc |-> "knapsack", items |-> in.items, capacity |-> in.capacity, dp |-> NoTable,
     i |-> 0, w |-> 0, selected |-> <<>>, result |-> NoResult, error |-> ""]

InitCalls ==
    /\ SolverIdle
    /\ SideIdle
    /\ calls \in [1..NumCalls -> {NewFrame(in) : in \in CallInputs}]
    /\ optReq = [pc |-> "none"]
    /\ quizDb = [quizExists |-> FALSE, questions |-> <<>>]
    /\ answersTable = [unique |-> TRUE, rows |-> <<>>]
    /\ ansReqs = <<>>

\* Variant of SelectedBuffer: one array at module level, shared by all calls
SharedSelectedBuffer(cs, p) == cs[1].selected

\* const selected: KnapsackItem[] = [] is a local of the invocation
SelectedBuffer(cs, p) == cs[p].selected

CallFrame(p, frame) ==
    /\ calls' = [calls EXCEPT ![p] = frame]
    /\ UNCHANGED <<solverVars, optReq, quizDb, answersTable, ansReqs, sideVars>>

CallEdgeCase(p) ==
    /\ calls[p].pc = "knapsack"
    /\ EdgeCase(calls[p].items, calls[p].capacity)
    /\ CallFrame(p, [calls[p] EXCEPT !.pc = "returned", !.result = EmptyResult])

CallAllocThrow(p) ==
    /\ calls[p].pc = "knapsack"
    /\ ~EdgeCase(calls[p].items, calls[p].capacity)
    /\ ~ValidArrayLength(calls[p].capacity)
    /\ CallFrame(p, [calls[p] EXCEPT !.pc = "thrown", !.error = ErrArrayLength])

CallBuild(p) ==
    /\ calls[p].pc = "knapsack"
    /\ ~EdgeCase(calls[p].items, calls[p].capacity)
    /\ ValidArrayLength(calls[p].capacity)
    /\ CallFrame(p, [calls[p] EXCEPT !.pc = "backtrack",
                                     !.dp = BuildTable(calls[p].items, calls[p].capacity.v),
                                     !.selected = <<>>,
                                     !.w = calls[p].capacity.v,
                                     !.i = Len(calls[p].items)])

CallBacktrackStep(p) ==
    LET f == calls[p]
        inc == Included(f.dp, f.i, f.w)
    IN /\ f.pc = "backtrack"
       /\ LoopCondition(f.i, f.w)
       /\ CallFrame(p, [f EXCEPT
              !.selected = IF inc THEN Push(SelectedBuffer(calls, p), f.items[f.i])
                                  ELSE SelectedBuffer(calls, p),
              !.w = IF inc THEN Remaining(f.w, f.items[f.i]) ELSE f.w,
              !.i = NextRow(f.i, inc)])

CallReturn(p) ==
    /\ calls[p].pc = "backtrack"
    /\ ~LoopCondition(calls[p].i, calls[p].w)
    /\ CallFrame(p, [calls[p] EXCEPT
           !.pc = "returned",
           !.result = MakeResult(Reverse(SelectedBuffer(calls, p)))])

NextCalls ==
    \E p \in 1..NumCalls :
        \/ CallEdgeCase(p)
        \/ CallAllocThrow(p)
        \/ CallBuild(p)
        \/ CallBacktrackStep(p)
        \/ CallReturn(p)

SpecCalls == InitCalls /\ [][NextCalls]_vars

CallEnded(p) == calls[p].pc \in {"returned", "thrown"}

CallOutcome(p) == [kind |-> calls[p].pc, result |-> calls[p].result, error |-> calls[p].error]

C17_Isolated ==
    \A p \in 1..NumCalls :
        CallEnded(p) => CallOutcome(p) = KnapsackOutcome(calls[p].items, calls[p].capacity)

\* Two invocations with different arguments were both in the backward walk
\* at once, and one of them has since returned a non-empty selection.
C17_Witness ==
    \E p, q \in 1..NumCalls :
        /\ calls[p].pc = "returned"
        /\ calls[p].result.selected_items # <<>>
        /\ calls[q].pc = "backtrack"
        /\ calls[q].selected # <<>>
        /\ calls[q].items # calls[p].items

\* ------------------------------------------------------------------------
\* POST /api/optimize.  One request is followed through the handler: the
\* body is parsed and validated, the quiz and its questions are read from
\* the database, and optimizeQuestions computes the selection.
\* ------------------------------------------------------------------------
AbsentCap == [kind |-> "undefined", v |-> 0]

\* An integer too large to be an array length (above 2^32 - 1)
HugeCap == [kind |-> "huge", v |-> 0]

\* Values total_time can take in a JSON body (JSON has no NaN)
JsonTotalTimes == (Numbers \ {NaNCap}) \cup {StringCap, AbsentCap, HugeCap}

QuizIds == {"uuid", "text", "absent"}

MalformedBody == [json |-> FALSE, quiz_id |-> "absent", total_time |-> AbsentCap]

OptBodies ==
    {MalformedBody} \cup
    {[json |-> TRUE, quiz_id |-> q, total_time |-> t] : q \in QuizIds, t \in JsonTotalTimes}

\* Rows of the questions table, CHECK (score > 0) and CHECK (time_required > 0)
DbQuestionSeqs ==
    {qs \in QuestionSeqs :
        \A k \in 1..Len(qs) : qs[k].score > 0 /\ qs[k].time_required > 0}

\* Questions belong to a quiz (foreign key): no quiz, no questions
QuizDbs ==
    {[quizExists |-> TRUE, questions |-> qs] : qs \in DbQuestionSeqs}
        \cup {[quizExists |-> FALSE, questions |-> <<>>]}

NoResponse ==
    [status |-> 0, success |-> FALSE, selected_questions |-> <<>>,
     total_score |-> 0, total_time |-> 0, error |-> ""]

NewOptRequest(body) ==
    [pc |-> "start", body |-> body, dbQueries |-> 0, dbFailed |-> FALSE,
     solverCalls |-> 0, solverArg |-> AbsentCap, questions |-> <<>>,
     response |-> NoResponse]

InitOptimize ==
    /\ SolverIdle
    /\ SideIdle
    /\ calls = <<>>
    /\ answersTable = [unique |-> TRUE, rows |-> <<>>]
    /\ ansReqs = <<>>
    /\ quizDb \in QuizDbs
    /\ optReq \in {NewOptRequest(body) : body \in OptBodies}

\* Variant of SchemaOk: total_time without .int()
SchemaOkNoInt(body) ==
    /\ body.quiz_id = "uuid"
    /\ body.total_time.kind \in {"int", "frac", "huge"}
    /\ ~LeqZero(body.total_time)

\* OptimizeRequestSchema.safeParse(body).success:
\* quiz_id: z.string().uuid(); total_time: z.number().int().positive().min(1)
SchemaOk(body) ==
    /\ body.quiz_id = "uuid"
    /\ body.total_time.kind \in {"int", "huge"}
    /\ ~LeqZero(body.total_time)
    /\ body.total_time.kind = "int" => body.total_time.v >= 1

\* Variant of FailureResponse: the failure is sent with status 200
FailureResponseStatusOk(status, msg) ==
    [status |-> 200, success |-> FALSE, selected_questions |-> <<>>,
     total_score |-> 0, total_time |-> 0, error |-> msg]

FailureResponse(status, msg) ==
    [status |-> status, success |-> FALSE, selected_questions |-> <<>>,
     total_score |-> 0, total_time |-> 0, error |-> msg]

\* Variant of SuccessResponse: an empty selection is reported as a failure
SuccessResponseEmptyFails(res) ==
    IF res.selected_items = <<>>
    THEN FailureResponse(404, "No questions fit")
    ELSE [status |-> 200, success |-> TRUE,
          selected_questions |-> [k \in 1..Len(res.selected_items) |-> res.selected_items[k].data],
          total_score |-> res.total_value, total_time |-> res.total_weight, error |-> ""]

\* selected_questions: result.selected_items.map((item) => item.data),
\* total_score: result.total_value, total_time: result.total_weight, status 200
SuccessResponse(res) ==
    [status |-> 200, success |-> TRUE,
     selected_questions |-> [k \in 1..Len(res.selected_items) |-> res.selected_items[k].data],
     total_score |-> res.total_value, total_time |-> res.total_weight, error |-> ""]

OptRespond(resp) ==
    /\ optReq' = [optReq EXCEPT !.pc = "done", !.response = resp]
    /\ UNCHANGED <<solverVars, calls, quizDb, answersTable, ansReqs, sideVars>>

OptStep(req) ==
    /\ optReq' = req
    /\ UNCHANGED <<solverVars, calls, quizDb, answersTable, ansReqs, sideVars>>

\* await request.json() throws SyntaxError; the catch answers 400
OptInvalidJson ==
    /\ optReq.pc = "start"
    /\ ~optReq.body.json
    /\ OptRespond(FailureResponse(400, "Invalid JSON in request body"))

OptValidationFailed ==
    /\ optReq.pc = "start"
    /\ optReq.body.json
    /\ ~SchemaOk(optReq.body)
    /\ OptRespond(FailureResponse(400, "Validation failed"))

OptValidated ==
    /\ optReq.pc = "start"
    /\ optReq.body.json
    /\ SchemaOk(optReq.body)
    /\ OptStep([optReq EXCEPT !.pc = "quizQuery"])

\* quizError || !quiz: the query fails or finds no row
OptQuizNotFound ==
    /\ optReq.pc = "quizQuery"
    /\ \E failed \in BOOLEAN :
        /\ failed \/ ~quizDb.quizExists
        /\ optReq' = [optReq EXCEPT !.pc = "done",
                                    !.dbQueries = @ + 1,
                                    !.dbFailed = failed,
                                    !.response = FailureResponse(404, "Quiz not found")]
    /\ UNCHANGED <<solverVars, calls, quizDb, answersTable, ansReqs, sideVars>>

OptQuizFound ==
    /\ optReq.pc = "quizQuery"
    /\ quizDb.quizExists
    /\ OptStep([optReq EXCEPT !.pc = "questionsQuery", !.dbQueries = @ + 1])

OptQuestionsError ==
    /\ optReq.pc = "questionsQuery"
    /\ optReq' = [optReq EXCEPT !.pc = "done",
                                !.dbQueries = @ + 1,
                                !.dbFailed = TRUE,
                                !.response = FailureResponse(500, "Failed to fetch questions from database")]
    /\ UNCHANGED <<solverVars, calls, quizDb, answersTable, ansReqs, sideVars>>

OptQuestionsFetched ==
    /\ optReq.pc = "questionsQuery"
    /\ OptStep([optReq EXCEPT !.pc = "fetched",
                              !.dbQueries = @ + 1,
                              !.questions = quizDb.questions])

\* !questions || questions.length === 0
OptEmptyQuiz ==
    /\ optReq.pc = "fetched"
    /\ optReq.questions = <<>>
    /\ OptRespond(SuccessResponse(EmptyResult))

\* optimizeQuestions(questions, total_time); an exception reaches the catch
OptSolve ==
    LET out == OptimizeOutcome(TRUE, optReq.questions, optReq.body.total_time)
    IN /\ optReq.pc = "fetched"
       /\ optReq.questions # <<>>
       /\ optReq' = [optReq EXCEPT
              !.pc = "done",
              !.solverCalls = @ + 1,
              !.solverArg = optReq.body.total_time,
              !.response = IF out.kind = "returned" THEN SuccessResponse(out.result)
                           ELSE FailureResponse(500, out.error)]
       /\ UNCHANGED <<solverVars, calls, quizDb, answersTable, ansReqs, sideVars>>

NextOptimize ==
    \/ OptInvalidJson
    \/ OptValidationFailed
    \/ OptValidated
    \/ OptQuizNotFound
    \/ OptQuizFound
    \/ OptQuestionsError
    \/ OptQuestionsFetched
    \/ OptEmptyQuiz
    \/ OptSolve

SpecOptimize == InitOptimize /\ [][NextOptimize]_vars

OptDone == optReq.pc = "done"

PositiveInteger(c) == (c.kind = "int" /\ c.v >= 1) \/ c.kind = "huge"

\* every question of the quiz needs more than the requested time
NoQuestionFits(qs, t) ==
    /\ qs # <<>>
    /\ t.kind = "int"
    /\ \A k \in 1..Len(qs) : qs[k].time_required > t.v

EmptyOk(resp) ==
    /\ resp.status = 200
    /\ resp.success
    /\ resp.selected_questions = <<>>
    /\ resp.total_score = 0
    /\ resp.total_time = 0

\* C18: a valid POST /api/optimize for an existing quiz whose queries the
\* database answers gets 200, success=true, no selected questions, total_score
\* 0 and total_time 0 both when the quiz has no questions and when total_time
\* is below the time of every question.
C18_EmptyIsSuccess ==
    (/\ OptDone
     /\ optReq.body.json
     /\ SchemaOk(optReq.body)
     /\ quizDb.quizExists
     /\ ~optReq.dbFailed
     /\ (quizDb.questions = <<>> \/ NoQuestionFits(quizDb.questions, optReq.body.total_time)))
        => EmptyOk(optReq.response)

\* The solver ran on a quiz none of whose questions fit and 200 was answered.
C18_Witness ==
    /\ OptDone
    /\ optReq.solverCalls = 1
    /\ NoQuestionFits(quizDb.questions, optReq.body.total_time)
    /\ EmptyOk(optReq.response)

\* The quiz has no questions and 200 was answered without calling the solver.
C18_WitnessNoQuestions ==
    /\ OptDone
    /\ quizDb.quizExists
    /\ quizDb.questions = <<>>
    /\ optReq.solverCalls = 0
    /\ EmptyOk(optReq.response)

BodyRejected(body) ==
    \/ ~body.json
    \/ ~PositiveInteger(body.total_time)
    \/ body.quiz_id # "uuid"

\* C19: a body whose total_time is not a positive integer or whose quiz_id is
\* not a UUID is answered 400 with success=false, with no database query and
\* no solver call made; the solver only ever receives a positive integer.
C19_RejectedEarly ==
    /\ BodyRejected(optReq.body) =>
          /\ optReq.dbQueries = 0
          /\ optReq.solverCalls = 0
          /\ optReq.pc \in {"start", "done"}
          /\ OptDone => (optReq.response.status = 400 /\ ~optReq.response.success)
    /\ optReq.solverCalls > 0 => PositiveInteger(optReq.solverArg)

\* A body with a fractional total_time and a UUID quiz_id was answered 400.
C19_Witness ==
    /\ OptDone
    /\ optReq.body.json
    /\ optReq.body.quiz_id = "uuid"
    /\ optReq.body.total_time.kind = "frac"
    /\ ~LeqZero(optReq.body.total_time)
    /\ optReq.response.status = 400
    /\ optReq.dbQueries = 0

\* ------------------------------------------------------------------------
\* POST /api/answers.  Several requests are in progress at once; each awaits
\* the question lookup and then the insert.  The answers table is created by
\* schema.sql with CONSTRAINT unique_user_question_answer UNIQUE (user_id,
\* question_id); remove_unique_constraint_migration.sql drops that constraint.
\* ------------------------------------------------------------------------
UserIds == {"u1", "u2"}

AnswerQuizIds == {"z1", "z2"}

\* "q1" is a question of quiz "z1"; "qx" is the id of no question
AnswerQuestionIds == {"q1", "qx"}

QuestionExists(qid) == qid = "q1"

QuizOfQuestion(qid) == "z1"

AnswerBodies ==
    {[kind |-> "malformed", user_id |-> "u1", quiz_id |-> "z1", question_id |-> "q1"],
     [kind |-> "invalid", user_id |-> "u1", quiz_id |-> "z1", question_id |-> "q1"]}
    \cup {[kind |-> "valid", user_id |-> u, quiz_id |-> z, question_id |-> q] :
              u \in UserIds, z \in AnswerQuizIds, q \in AnswerQuestionIds}

NewAnswerRequest(body) == [pc |-> "start", body |-> body, status |-> 0, success |-> FALSE]

InitAnswers ==
    /\ SolverIdle
    /\ SideIdle
    /\ calls = <<>>
    /\ optReq = [pc |-> "none"]
    /\ quizDb = [quizExists |-> FALSE, questions |-> <<>>]
    /\ answersTable = [unique |-> TRUE, rows |-> <<>>]
    /\ ansReqs \in [1..NumAnswerReqs -> {NewAnswerRequest(body) : body \in AnswerBodies}]

AnswerRow(body) ==
    [user_id |-> body.user_id, quiz_id |-> body.quiz_id, question_id |-> body.question_id]

\* rows of the table with the same (user_id, question_id)
RowsOfPair(rows, u, q) == {k \in 1..Len(rows) : rows[k].user_id = u /\ rows[k].question_id = q}

\* The insert violates unique_user_question_answer (error code 23505)
UniqueViolation(table, row) ==
    /\ table.unique
    /\ RowsOfPair(table.rows, row.user_id, row.question_id) # {}

AnsRespond(r, status, ok) ==
    /\ ansReqs' = [ansReqs EXCEPT ![r] = [@ EXCEPT !.pc = "done", !.status = status, !.success = ok]]

AnsUnchanged == UNCHANGED <<solverVars, calls, optReq, quizDb, sideVars>>

AnsInvalidJson(r) ==
    /\ ansReqs[r].pc = "start"
    /\ ansReqs[r].body.kind = "malformed"
    /\ AnsRespond(r, 400, FALSE)
    /\ UNCHANGED answersTable
    /\ AnsUnchanged

AnsValidationFailed(r) ==
    /\ ansReqs[r].pc = "start"
    /\ ansReqs[r].body.kind = "invalid"
    /\ AnsRespond(r, 400, FALSE)
    /\ UNCHANGED answersTable
    /\ AnsUnchanged

AnsValidated(r) ==
    /\ ansReqs[r].pc = "start"
    /\ ansReqs[r].body.kind = "valid"
    /\ ansReqs' = [ansReqs EXCEPT ![r] = [@ EXCEPT !.pc = "lookup"]]
    /\ UNCHANGED answersTable
    /\ AnsUnchanged

\* questionError || !question
AnsQuestionNotFound(r) ==
    /\ ansReqs[r].pc = "lookup"
    /\ \E failed \in BOOLEAN : failed \/ ~QuestionExists(ansReqs[r].body.question_id)
    /\ AnsRespond(r, 404, FALSE)
    /\ UNCHANGED answersTable
    /\ AnsUnchanged

\* question.quiz_id !== validatedData.quiz_id
AnsWrongQuiz(r) ==
    /\ ansReqs[r].pc = "lookup"
    /\ QuestionExists(ansReqs[r].body.question_id)
    /\ QuizOfQuestion(ansReqs[r].body.question_id) # ansReqs[r].body.quiz_id
    /\ AnsRespond(r, 400, FALSE)
    /\ UNCHANGED answersTable
    /\ AnsUnchanged

AnsQuestionOk(r) ==
    /\ ansReqs[r].pc = "lookup"
    /\ QuestionExists(ansReqs[r].body.question_id)
    /\ QuizOfQuestion(ansReqs[r].body.question_id) = ansReqs[r].body.quiz_id
    /\ ansReqs' = [ansReqs EXCEPT ![r] = [@ EXCEPT !.pc = "insert"]]
    /\ UNCHANGED answersTable
    /\ AnsUnchanged

\* insertError.code === '23505'
AnsInsertDuplicate(r) ==
    /\ ansReqs[r].pc = "insert"
    /\ UniqueViolation(answersTable, AnswerRow(ansReqs[r].body))
    /\ AnsRespond(r, 409, FALSE)
    /\ UNCHANGED answersTable
    /\ AnsUnchanged

\* any other insertError
AnsInsertFailed(r) ==
    /\ ansReqs[r].pc = "insert"
    /\ AnsRespond(r, 500, FALSE)
    /\ UNCHANGED answersTable
    /\ AnsUnchanged

AnsInserted(r) ==
    /\ ansReqs[r].pc = "insert"
    /\ ~UniqueViolation(answersTable, AnswerRow(ansReqs[r].body))
    /\ answersTable' = [answersTable EXCEPT !.rows = Append(@, AnswerRow(ansReqs[r].body))]
    /\ AnsRespond(r, 201, TRUE)
    /\ AnsUnchanged

\* ALTER TABLE answers DROP CONSTRAINT IF EXISTS unique_user_question_answer
ApplyRemoveUniqueConstraintMigration ==
    /\ answersTable.unique
    /\ answersTable' = [answersTable EXCEPT !.unique = FALSE]
    /\ UNCHANGED ansReqs
    /\ AnsUnchanged

NextAnswers ==
    \/ \E r \in 1..NumAnswerReqs :
        \/ AnsInvalidJson(r)
        \/ AnsValidationFailed(r)
        \/ AnsValidated(r)
        \/ AnsQuestionNotFound(r)
        \/ AnsWrongQuiz(r)
        \/ AnsQuestionOk(r)
        \/ AnsInsertDuplicate(r)
        \/ AnsInsertFailed(r)
        \/ AnsInserted(r)
    \/ ApplyRemoveUniqueConstraintMigration

SpecAnswers == InitAnswers /\ [][NextAnswers]_vars

SamePair(r, s) ==
    /\ ansReqs[r].body.user_id = ansReqs[s].body.user_id
    /\ ansReqs[r].body.question_id = ansReqs[s].body.question_id

\* C20: under any interleaving of POST /api/answers requests at most one
\* answer row is stored per (user_id, question_id), and of two requests for
\* the same pair at most one is answered 201.
C20_AtMostOneAnswer ==
    /\ \A u \in UserIds, q \in AnswerQuestionIds :
           Cardinality(RowsOfPair(answersTable.rows, u, q)) <= 1
    /\ \A r, s \in 1..NumAnswerReqs :
           (r # s /\ SamePair(r, s)) => ~(ansReqs[r].status = 201 /\ ansReqs[s].status = 201)

\* With the constraint of schema.sql in place the pair is stored once and the
\* second request is answered 409.
C20_HoldsWhileConstrained ==
    answersTable.unique =>
        /\ \A u \in UserIds, q \in AnswerQuestionIds :
               Cardinality(RowsOfPair(answersTable.rows, u, q)) <= 1
        /\ \A r, s \in 1..NumAnswerReqs :
               (r # s /\ SamePair(r, s)) => ~(ansReqs[r].status = 201 /\ ansReqs[s].status = 201)

C20_DuplicateRefused ==
    \E r, s \in 1..NumAnswerReqs :
        /\ SamePair(r, s)
        /\ ansReqs[r].status = 201
        /\ ansReqs[s].status = 409
        /\ Len(answersTable.rows) = 1

\* ------------------------------------------------------------------------
\* validateSolution (knapsack.ts 163-186)
\* ------------------------------------------------------------------------
\* Results handed to validateSolution: any selection with any claimed totals
ItemC == ToItem(Question(3, 1, 1))

ClaimedSelections == {<<>>, <<ItemC>>, <<ItemA>>, <<ItemC, ItemA>>, <<ItemA, ItemC>>, <<ItemC, ItemC>>}

ClaimedTotals == 0..(SumValue(<<ItemA, ItemC>>) + 1)

InitValidate ==
    /\ SolverIdle
    /\ calls = <<>>
    /\ optReq = [pc |-> "none"]
    /\ quizDb = [quizExists |-> FALSE, questions |-> <<>>]
    /\ answersTable = [unique |-> TRUE, rows |-> <<>>]
    /\ ansReqs = <<>>
    /\ usersTable = <<>>
    /\ userReqs = <<>>
    /\ questionsReq = [pc |-> "none"]
    /\ \E sel \in ClaimedSelections, tv \in ClaimedTotals, tw \in ClaimedTotals, cap \in Numbers :
           validation = [pc |-> "validateSolution",
                         result |-> [selected_items |-> sel, total_value |-> tv, total_weight |-> tw],
                         capacity |-> cap,
                         returned |-> FALSE]

\* x > c for an integer x and a JavaScript number c (false for NaN)
GreaterNumber(x, c) ==
    \/ c.kind = "int" /\ x > c.v
    \/ c.kind = "frac" /\ x > c.v

\* result.total_weight > capacity
Overweight(res, cap) == GreaterNumber(res.total_weight, cap)

\* Variant of TotalsMatch: only the value is recomputed
TotalsMatchValueOnly(res) == SumValue(res.selected_items) = res.total_value

\* computedValue === result.total_value && computedWeight === result.total_weight
TotalsMatch(res) ==
    /\ SumValue(res.selected_items) = res.total_value
    /\ SumWeight(res.selected_items) = res.total_weight

ValidateUnchanged ==
    UNCHANGED <<solverVars, calls, optReq, quizDb, answersTable, ansReqs,
                usersTable, userReqs, questionsReq>>

\* if (result.total_weight > capacity) return false
ValidateOverweight ==
    /\ validation.pc = "validateSolution"
    /\ Overweight(validation.result, validation.capacity)
    /\ validation' = [validation EXCEPT !.pc = "returned", !.returned = FALSE]
    /\ ValidateUnchanged

ValidateTotals ==
    /\ validation.pc = "validateSolution"
    /\ ~Overweight(validation.result, validation.capacity)
    /\ validation' = [validation EXCEPT !.pc = "returned",
                                        !.returned = TotalsMatch(validation.result)]
    /\ ValidateUnchanged

NextValidate ==
    \/ ValidateOverweight
    \/ ValidateTotals

SpecValidate == InitValidate /\ [][NextValidate]_vars

C23_WitnessOverweight ==
    /\ validation.pc = "returned"
    /\ ~validation.returned
    /\ TotalsMatch(validation.result)
    /\ validation.result.selected_items # <<>>

\* ------------------------------------------------------------------------
\* The DP table and the backward walk
\* ------------------------------------------------------------------------
\* The first k items, in input order
Prefix(its, k) == SubSeq(its, 1, k)

\* The table of a call with valid arguments has been built
TableBuilt ==
    /\ tableAllocated
    /\ PositiveWeights(items)
    /\ capacity.kind = "int"
    /\ capacity.v >= 1

\* C24: for items of weight > 0 (values >= 0) and an integer capacity >= 1,
\* every cell dp[i][w] of the complete table, i in 0..n and w in 0..capacity,
\* is the best total value of a subset of the first i items of total weight
\* <= w; row 0 is 0.
C24_TableMeaning ==
    TableBuilt =>
        /\ DOMAIN dp = 0..Len(items)
        /\ \A r \in 0..Len(items) :
              /\ DOMAIN dp[r] = 0..capacity.v
              /\ \A c \in 0..capacity.v : dp[r][c] = BestValue(Prefix(items, r), c)
        /\ \A c \in 0..capacity.v : dp[0][c] = 0

\* A table of three rows in which the last row improves on the row above.
C24_Witness ==
    /\ TableBuilt
    /\ Len(items) = 3
    /\ capacity.v = MaxCap
    /\ dp[3][MaxCap] > dp[2][MaxCap]
    /\ dp[2][MaxCap] > dp[1][MaxCap]
    /\ dp[3][MaxCap] = BestValue(items, MaxCap)

RECURSIVE FullScan(_, _, _, _, _)
\* The backward scan from (n, capacity) down to i = 0, whatever w is
FullScan(table, its, ii, ww, sel) ==
    IF ii <= 0 THEN Reverse(sel)
    ELSE IF table[ii][ww] # table[ii - 1][ww]
         THEN FullScan(table, its, ii - 1, ww - its[ii].weight, Append(sel, its[ii]))
         ELSE FullScan(table, its, ii - 1, ww, sel)

\* C25: for weights that are all > 0, the loop while (i > 0 && w > 0), which
\* stops as soon as w reaches 0, selects exactly the items the backward scan
\* down to i = 0 selects.
C25_EarlyStopEquivalent ==
    (Returned /\ TableBuilt)
        => result.selected_items = FullScan(dp, items, Len(items), capacity.v, <<>>)

\* The loop stopped with w = 0 and rows left unscanned.
C25_Witness ==
    /\ Returned
    /\ TableBuilt
    /\ w = 0
    /\ i >= 2
    /\ result.selected_items # <<>>
    /\ result.selected_items = FullScan(dp, items, Len(items), capacity.v, <<>>)

\* Items of weight 0 were supplied to a call with an integer capacity >= 1
ZeroWeightCall ==
    /\ entry = "knapsack"
    /\ capacity.kind = "int"
    /\ capacity.v >= 1
    /\ \E k \in 1..Len(items) : items[k].weight = 0

\* Position k holds a free item of positive value, and the selected items
\* placed after it use up the whole capacity: w reached 0 after position k
DroppedCase(k) ==
    /\ items[k].weight = 0
    /\ items[k].value > 0
    /\ SetSum(WeightOf(items), {p \in SelectedPositions : p > k}) = capacity.v

\* C26: when items of weight 0 are supplied knapsack does not throw, but a free
\* item of positive value placed before the item at which the remaining weight
\* reaches 0 is left out of the selection, and total_value is then lower than
\* dp[n][capacity].
C26_FreeItemDropped ==
    (ZeroWeightCall /\ Ended) =>
        /\ Returned
        /\ \A k \in 1..Len(items) :
              DroppedCase(k) =>
                  /\ k \notin SelectedPositions
                  /\ result.total_value < dp[Len(items)][capacity.v]

\* A free item of value 1 in front of an item that fills the capacity was
\* left out.
C26_Witness ==
    /\ ZeroWeightCall
    /\ Returned
    /\ \E k \in 1..Len(items) : DroppedCase(k) /\ k \notin SelectedPositions
    /\ result.total_value < dp[Len(items)][capacity.v]
    /\ result.total_value > 0

\* C27: for items of weight > 0 (values >= 0), at every step of the backward
\* walk 0 <= w <= capacity and 0 <= i <= n, and dp[i][w] plus the values of
\* the items selected so far is dp[n][capacity]; on return total_value is
\* dp[n][capacity].
C27_WalkInvariant ==
    /\ (TableBuilt /\ pc = "backtrack") =>
          /\ 0 <= w
          /\ w <= capacity.v
          /\ 0 <= i
          /\ i <= Len(items)
          /\ dp[i][w] + SumValue(selected) = dp[Len(items)][capacity.v]
    /\ (TableBuilt /\ Returned) => result.total_value = dp[Len(items)][capacity.v]

\* The walk is under way: an item has been taken and rows remain.
C27_Witness ==
    /\ TableBuilt
    /\ pc = "backtrack"
    /\ selected # <<>>
    /\ i >= 1
    /\ w >= 1
    /\ dp[i][w] >= 1
    /\ dp[i][w] + SumValue(selected) = dp[Len(items)][capacity.v]

\* The last input item is the last selected item (the selection keeps input order)
LastItemSelected ==
    /\ result.selected_items # <<>>
    /\ result.selected_items[Len(result.selected_items)] = items[Len(items)]

\* C28: for valid items and capacity >= 1, at every step of the backward walk
\* item i is taken if and only if the optimum over the first i items at the
\* remaining capacity w is strictly greater than the optimum over the first
\* i - 1 items at w; so the last item is selected if and only if the optimum
\* over all n items exceeds the optimum over the first n - 1 at capacity.
C28_TakenIffNeeded ==
    /\ (TableBuilt /\ pc = "backtrack" /\ LoopCondition(i, w)) =>
          (Included(dp, i, w)
              <=> BestValue(Prefix(items, i), w) > BestValue(Prefix(items, i - 1), w))
    /\ (TableBuilt /\ Returned /\ Len(items) >= 1) =>
          (LastItemSelected
              <=> BestValue(items, capacity.v)
                     > BestValue(Prefix(items, Len(items) - 1), capacity.v))

\* The last item fits and would reach the optimum, but so do the items before
\* it: it is left out.
C28_Witness ==
    /\ TableBuilt
    /\ Returned
    /\ Len(items) >= 2
    /\ items[Len(items)].weight <= capacity.v
    /\ items[Len(items)].value > 0
    /\ ~LastItemSelected
    /\ BestValue(items, capacity.v) = BestValue(Prefix(items, Len(items) - 1), capacity.v)

\* C29: for items of weight > 0 and integer capacities 0 <= c1 <= c2,
\* knapsack(items, c1).total_value <= knapsack(items, c2).total_value.
C29_MonotoneInCapacity ==
    (Returned /\ entry = "knapsack" /\ PositiveWeights(items)
        /\ capacity.kind = "int" /\ capacity.v >= 0)
        => \A c1 \in 0..capacity.v :
              /\ KnapsackOutcome(items, IntCap(c1)).kind = "returned"
              /\ KnapsackOutcome(items, IntCap(c1)).result.total_value <= result.total_value

\* A call whose total_value is strictly above that of the same items at a
\* smaller positive capacity.
C29_Witness ==
    /\ Returned
    /\ entry = "knapsack"
    /\ PositiveWeights(items)
    /\ capacity = IntCap(MaxCap)
    /\ KnapsackOutcome(items, IntCap(1)).result.total_value >= 1
    /\ KnapsackOutcome(items, IntCap(1)).result.total_value < result.total_value

\* C30: every response of POST /api/optimize has success = true if and only
\* if its status is 200, and a response with success = false has empty
\* selected_questions, total_score 0 and total_time 0.
C30_SuccessIffOk ==
    OptDone =>
        /\ optReq.response.status \in {200, 400, 404, 500}
        /\ optReq.response.success <=> optReq.response.status = 200
        /\ ~optReq.response.success =>
              /\ optReq.response.selected_questions = <<>>
              /\ optReq.response.total_score = 0
              /\ optReq.response.total_time = 0

\* The solver threw and the catch answered 500.
C30_Witness ==
    /\ OptDone
    /\ optReq.solverCalls = 1
    /\ optReq.response.status = 500
    /\ optReq.response.error = ErrArrayLength
    /\ ~optReq.response.success
    /\ optReq.response.selected_questions = <<>>

\* The solver selected questions and 200 was answered.
C30_WitnessSolved ==
    /\ OptDone
    /\ optReq.response.status = 200
    /\ optReq.response.success
    /\ Len(optReq.response.selected_questions) >= 2

\* ------------------------------------------------------------------------
\* POST /api/users.  Several requests are in progress at once; each awaits
\* the lookup by email and then, if no user was found, the insert.  The users
\* table has email UNIQUE NOT NULL.
\* ------------------------------------------------------------------------
Emails == {"a@quiz.test", "b@quiz.test"}

UserBodies ==
    {[kind |-> "malformed", email |-> ""], [kind |-> "invalid", email |-> "not-an-email"]}
    \cup {[kind |-> "valid", email |-> m] : m \in Emails}

UserRow(email, id) == [id |-> id, email |-> email]

NoUser == [id |-> 0, email |-> ""]

NewUserRequest(body) ==
    [pc |-> "start", body |-> body, dbFailed |-> FALSE,
     status |-> 0, success |-> FALSE, isNewUser |-> FALSE, user |-> NoUser, error |-> ""]

InitUsers ==
    /\ SolverIdle
    /\ calls = <<>>
    /\ optReq = [pc |-> "none"]
    /\ quizDb = [quizExists |-> FALSE, questions |-> <<>>]
    /\ answersTable = [unique |-> TRUE, rows |-> <<>>]
    /\ ansReqs = <<>>
    /\ validation = [pc |-> "none"]
    /\ questionsReq = [pc |-> "none"]
    /\ usersTable \in {<<>>, <<UserRow("a@quiz.test", 1)>>}
    /\ userReqs \in [1..NumUserReqs -> {NewUserRequest(body) : body \in UserBodies}]

\* rows of the users table with that email
UsersWithEmail(table, email) == {k \in 1..Len(table) : table[k].email = email}

UsrUnchanged ==
    UNCHANGED <<solverVars, calls, optReq, quizDb, answersTable, ansReqs, validation, questionsReq>>

UsrRespond(r, status, ok, isNew, user, failed, msg) ==
    userReqs' = [userReqs EXCEPT ![r] =
                    [@ EXCEPT !.pc = "done", !.status = status, !.success = ok,
                              !.isNewUser = isNew, !.user = user, !.dbFailed = failed,
                              !.error = msg]]

UsrInvalidJson(r) ==
    /\ userReqs[r].pc = "start"
    /\ userReqs[r].body.kind = "malformed"
    /\ UsrRespond(r, 400, FALSE, FALSE, NoUser, FALSE, "Invalid JSON in request body")
    /\ UNCHANGED usersTable
    /\ UsrUnchanged

UsrValidationFailed(r) ==
    /\ userReqs[r].pc = "start"
    /\ userReqs[r].body.kind = "invalid"
    /\ UsrRespond(r, 400, FALSE, FALSE, NoUser, FALSE, "Validation failed")
    /\ UNCHANGED usersTable
    /\ UsrUnchanged

UsrValidated(r) ==
    /\ userReqs[r].pc = "start"
    /\ userReqs[r].body.kind = "valid"
    /\ userReqs' = [userReqs EXCEPT ![r] = [@ EXCEPT !.pc = "lookup"]]
    /\ UNCHANGED usersTable
    /\ UsrUnchanged

\* lookupError: the database fails
UsrLookupFailed(r) ==
    /\ userReqs[r].pc = "lookup"
    /\ UsrRespond(r, 500, FALSE, FALSE, NoUser, TRUE, "Failed to lookup user")
    /\ UNCHANGED usersTable
    /\ UsrUnchanged

\* if (existingUser)
UsrFound(r) ==
    /\ userReqs[r].pc = "lookup"
    /\ \E k \in UsersWithEmail(usersTable, userReqs[r].body.email) :
           UsrRespond(r, 200, TRUE, FALSE, usersTable[k], FALSE, "")
    /\ UNCHANGED usersTable
    /\ UsrUnchanged

\* maybeSingle() returned null: the handler goes on to the insert
UsrNotFound(r) ==
    /\ userReqs[r].pc = "lookup"
    /\ UsersWithEmail(usersTable, userReqs[r].body.email) = {}
    /\ userReqs' = [userReqs EXCEPT ![r] = [@ EXCEPT !.pc = "insert"]]
    /\ UNCHANGED usersTable
    /\ UsrUnchanged

\* createError because the email is in the table by now (email UNIQUE)
UsrCreateDuplicate(r) ==
    /\ userReqs[r].pc = "insert"
    /\ UsersWithEmail(usersTable, userReqs[r].body.email) # {}
    /\ UsrRespond(r, 500, FALSE, FALSE, NoUser, FALSE, "Failed to create user")
    /\ UNCHANGED usersTable
    /\ UsrUnchanged

\* createError because the database fails
UsrCreateFailed(r) ==
    /\ userReqs[r].pc = "insert"
    /\ UsrRespond(r, 500, FALSE, FALSE, NoUser, TRUE, "Failed to create user")
    /\ UNCHANGED usersTable
    /\ UsrUnchanged

UsrCreated(r) ==
    /\ userReqs[r].pc = "insert"
    /\ UsersWithEmail(usersTable, userReqs[r].body.email) = {}
    /\ usersTable' = Append(usersTable, UserRow(userReqs[r].body.email, Len(usersTable) + 1))
    /\ UsrRespond(r, 201, TRUE, TRUE, UserRow(userReqs[r].body.email, Len(usersTable) + 1), FALSE, "")
    /\ UsrUnchanged

NextUsers ==
    \E r \in 1..NumUserReqs :
        \/ UsrInvalidJson(r)
        \/ UsrValidationFailed(r)
        \/ UsrValidated(r)
        \/ UsrLookupFailed(r)
        \/ UsrFound(r)
        \/ UsrNotFound(r)
        \/ UsrCreateDuplicate(r)
        \/ UsrCreateFailed(r)
        \/ UsrCreated(r)

SpecUsers == InitUsers /\ [][NextUsers]_vars

\* C21: absent database failures and under any interleaving, every request
\* with a valid email is answered success = true with the user row for that
\* email: 200 with isNewUser = false, or 201 with isNewUser = true.
C21_AlwaysServed ==
    \A r \in 1..NumUserReqs :
        (userReqs[r].pc = "done" /\ userReqs[r].body.kind = "valid" /\ ~userReqs[r].dbFailed)
            => /\ userReqs[r].success
               /\ userReqs[r].user.email = userReqs[r].body.email
               /\ \/ userReqs[r].status = 200 /\ ~userReqs[r].isNewUser
                  \/ userReqs[r].status = 201 /\ userReqs[r].isNewUser

\* What does hold: the table never has two rows for an email, and a request
\* answered success = true carries the row of its email.
C21_NoDuplicateUsers ==
    /\ \A m \in Emails : Cardinality(UsersWithEmail(usersTable, m)) <= 1
    /\ \A r \in 1..NumUserReqs :
          userReqs[r].success =>
              /\ userReqs[r].user.email = userReqs[r].body.email
              /\ UsersWithEmail(usersTable, userReqs[r].body.email) # {}

\* Two requests for the same new email: one created the user, the other was
\* answered 500 although the database did not fail.
C21_RaceLost ==
    \E r, q \in 1..NumUserReqs :
        /\ userReqs[r].body.email = userReqs[q].body.email
        /\ userReqs[r].status = 201
        /\ userReqs[q].status = 500
        /\ ~userReqs[q].dbFailed

\* ------------------------------------------------------------------------
\* GET /api/quizzes/[quizId]/questions.  The request carries the quizId of
\* the path and, optionally, a difficulty query parameter, which the page
\* of the quiz sends when a difficulty is chosen.
\* ------------------------------------------------------------------------
Difficulties == {"easy", "medium", "hard"}

\* The difficulty query parameter: absent, one of the three, or anything else
DifficultyParams == {"absent", "bogus"} \cup Difficulties

\* quizId of the path: the id of a quiz row if there is one, or blank
PathQuizIds == {"uuid", " "}

ListedQuestion(id, d) == [id |-> id, score |-> 1, time_required |-> 1, difficulty |-> d]

ListedQuestionSeqs ==
    UNION {{[k \in 1..n |-> ListedQuestion(k, f[k])] : f \in [1..n -> Difficulties]} :
              n \in 0..MaxListed}

NoListing == [status |-> 0, success |-> FALSE, questions |-> <<>>, error |-> ""]

InitQuestions ==
    /\ SolverIdle
    /\ calls = <<>>
    /\ optReq = [pc |-> "none"]
    /\ answersTable = [unique |-> TRUE, rows |-> <<>>]
    /\ ansReqs = <<>>
    /\ validation = [pc |-> "none"]
    /\ usersTable = <<>>
    /\ userReqs = <<>>
    /\ quizDb \in {[quizExists |-> TRUE, questions |-> qs] : qs \in ListedQuestionSeqs}
                      \cup {[quizExists |-> FALSE, questions |-> <<>>]}
    /\ \E id \in PathQuizIds, d \in DifficultyParams :
           questionsReq = [pc |-> "start", quizId |-> id, difficulty |-> d,
                           dbFailed |-> FALSE, response |-> NoListing]

GetUnchanged ==
    UNCHANGED <<solverVars, calls, optReq, quizDb, answersTable, ansReqs,
                validation, usersTable, userReqs>>

GetRespond(status, ok, qs, msg, failed) ==
    /\ questionsReq' = [questionsReq EXCEPT
           !.pc = "done",
           !.dbFailed = failed,
           !.response = [status |-> status, success |-> ok, questions |-> qs, error |-> msg]]
    /\ GetUnchanged

\* !quizId || typeof quizId !== 'string' || quizId.trim() === ''
GetInvalidQuizId ==
    /\ questionsReq.pc = "start"
    /\ questionsReq.quizId = " "
    /\ GetRespond(400, FALSE, <<>>, "Invalid or missing quizId parameter", FALSE)

GetQuizIdOk ==
    /\ questionsReq.pc = "start"
    /\ questionsReq.quizId # " "
    /\ questionsReq' = [questionsReq EXCEPT !.pc = "quizQuery"]
    /\ GetUnchanged

\* quizError || !quiz
GetQuizNotFound ==
    /\ questionsReq.pc = "quizQuery"
    /\ \E failed \in BOOLEAN :
           /\ failed \/ ~quizDb.quizExists
           /\ GetRespond(404, FALSE, <<>>, "Quiz not found", failed)

GetQuizFound ==
    /\ questionsReq.pc = "quizQuery"
    /\ quizDb.quizExists
    /\ questionsReq' = [questionsReq EXCEPT !.pc = "questionsQuery"]
    /\ GetUnchanged

GetQuestionsError ==
    /\ questionsReq.pc = "questionsQuery"
    /\ GetRespond(500, FALSE, <<>>, "Failed to fetch questions from database", TRUE)

\* .from('questions').select('*').eq('quiz_id', quizId).order('question_order'):
\* the query has no condition on difficulty, request.url is never read
GetQuestionsOk ==
    /\ questionsReq.pc = "questionsQuery"
    /\ GetRespond(200, TRUE, quizDb.questions, "", FALSE)

NextQuestions ==
    \/ GetInvalidQuizId
    \/ GetQuizIdOk
    \/ GetQuizNotFound
    \/ GetQuizFound
    \/ GetQuestionsError
    \/ GetQuestionsOk

SpecQuestions == InitQuestions /\ [][NextQuestions]_vars

QuestionsOfDifficulty(qs, d) == SelectSeq(qs, LAMBDA q : q.difficulty = d)

\* The request was answered for an existing quiz without a database failure
ListingAnswered ==
    /\ questionsReq.pc = "done"
    /\ questionsReq.quizId = "uuid"
    /\ quizDb.quizExists
    /\ ~questionsReq.dbFailed

\* C22: GET /api/quizzes/[quizId]/questions answers 400 when difficulty is
\* present and not one of easy, medium, hard; with a valid difficulty it
\* returns only the quiz's questions of that difficulty, and with no
\* difficulty all of the quiz's questions.
C22_DifficultyFilter ==
    ListingAnswered =>
        /\ questionsReq.difficulty = "bogus" => questionsReq.response.status = 400
        /\ questionsReq.difficulty \in Difficulties =>
              /\ questionsReq.response.status = 200
              /\ questionsReq.response.questions
                    = QuestionsOfDifficulty(quizDb.questions, questionsReq.difficulty)
        /\ questionsReq.difficulty = "absent" =>
              /\ questionsReq.response.status = 200
              /\ questionsReq.response.questions = quizDb.questions

\* What does hold: whatever the difficulty parameter, all questions of the
\* quiz are returned with status 200.
C22_ParameterIgnored ==
    ListingAnswered =>
        /\ questionsReq.response.status = 200
        /\ questionsReq.response.questions = quizDb.questions

\* difficulty=easy was answered with a question that is not easy.
C22_Unfiltered ==
    /\ ListingAnswered
    /\ questionsReq.difficulty = "easy"
    /\ questionsReq.response.status = 200
    /\ \E k \in 1..Len(questionsReq.response.questions) :
           questionsReq.response.questions[k].difficulty = "hard"

====
